---- MODULE Spec2Model ----
(***************************************************************************)
(* A model of src/src/renderer.cpp (namespace fpl): the Renderer (window   *)
(* and context, shader compilation, TGA texture decoding), Shader and Mesh. *)
(* The GL/SDL calls a function issues are recorded, in order, in glLog; the *)
(* pieces of GL/SDL state the functions depend on are variables.            *)
(***************************************************************************)
EXTENDS Integers, Sequences, FiniteSets, TLC

VARIABLES
  meshes,          \* Mesh objects: phase, vbo_, vertex_size_, format_, indices_
  slotEnabled,     \* GL: vertex attribute array enabled, per slot 0..3
  bufDeleted,      \* GL: number of glDeleteBuffers calls per buffer handle
  nextBuf,         \* GL: the handle the next glGenBuffers returns
  glLog,           \* the GL/SDL calls issued by the last operation, in order
  lastOp,          \* the last operation, its arguments and what it returned; for
                   \* Render/RenderArray also the value of SetAttributes' local
                   \* `offset` when it returned

  platform,        \* build: "desktop", "apple" or "mobile" (PLATFORM_MOBILE, __APPLE__)
  window_,         \* Renderer::window_ (0 is nullptr)
  context_,        \* Renderer::context_ (0 is nullptr)
  initialized,     \* Renderer::Initialize has been called
  sdlDestroyed,    \* SDL: SDL_DestroyWindow / SDL_GL_DeleteContext calls so far
  sdlCreated,      \* SDL: windows / contexts that SDL has created so far
  last_error_,     \* Renderer::last_error_, a text as the tuple of its parts
  shaders,         \* the Shader objects made by CompileAndLinkShader
  currentProgram,  \* GL: the program made current by glUseProgram (0: none)
  nextProgram,     \* GL: the handle the next glCreateProgram returns
  nextShader,      \* GL: the handle the next glCreateShader returns
  progDeleted,     \* GL: number of glDeleteProgram calls per program handle
  shaderDeleted,   \* GL: number of glDeleteShader calls per shader handle
  attached,        \* GL: the shader handles attached to each program
  littleEndian,    \* host: the low byte of an int is stored first
  textures,        \* GL: the textures created, each with its uploaded image
  nextTexture      \* GL: the name the next glGenTextures returns

meshVars == <<meshes, slotEnabled, bufDeleted, nextBuf>>
rendererVars == <<platform, window_, context_, initialized, sdlDestroyed,
                  sdlCreated>>
shaderVars == <<shaders, currentProgram, nextProgram, nextShader, progDeleted,
                shaderDeleted, attached>>

textureVars == <<littleEndian, textures, nextTexture>>

vars == <<meshVars, rendererVars, last_error_, shaderVars, textureVars, glLog, lastOp>>

----------------------------------------------------------------------------
(* Bounds *)

\* AddIndices calls per mesh
MaxRanges == 2

MeshIds == {1, 2}

\* buffer handles glGenBuffers can hand out: one vbo and MaxRanges ibos per mesh
BufIds == 1 .. (Cardinality(MeshIds) * (MaxRanges + 1))

\* CompileAndLinkShader calls
MaxPrograms == 2

\* program and shader handles glCreateProgram / glCreateShader can hand out
ProgramIds == 1 .. MaxPrograms
ShaderIds == 1 .. (2 * MaxPrograms)

Platforms == {"desktop", "apple", "mobile"}

\* width and height of the TGA images decoded
MaxWidth == 2
MaxHeight == 2

\* texture names glGenTextures can hand out
TextureIds == {1}

\* (format, vertex_size) pairs callers construct meshes with: tightly packed
\* vertices, padded vertices, a repeated field kind
Layouts ==
  { << <<"kPosition3f", "kNormal3f", "kTexCoord2f", "kColor4ub", "kEND">>, 36 >>,
    << <<"kPosition3f", "kEND">>, 16 >>,
    << <<"kTexCoord2f", "kTexCoord2f", "kEND">>, 16 >> }

\* (count, material) arguments of AddIndices
IndexArgs == { <<3, 1>>, <<6, 2>> }

\* RenderArray arguments: primitive (GL_LINES = 1, GL_TRIANGLES = 4), format,
\* vertex_size and the address of the caller's vertex memory
RenderArrayArgs ==
  { << 1, <<"kColor4ub", "kNormal3f", "kColor4ub", "kEND">>, 24, 1000 >>,
    << 4, <<"kEND">>, 16, 2000 >> }

----------------------------------------------------------------------------
(* enum { kAttributePosition, kAttributeNormal, kAttributeTexCoord,
          kAttributeColor } *)

kAttributePosition == 0
kAttributeNormal == 1
kAttributeTexCoord == 2
kAttributeColor == 3

Slots == {kAttributePosition, kAttributeNormal, kAttributeTexCoord, kAttributeColor}

GL_FLOAT == 5126
GL_UNSIGNED_BYTE == 5121
GL_TRIANGLES == 4

----------------------------------------------------------------------------
(* Mesh::SetAttributes / Mesh::UnSetAttributes *)

\* slot enabled by each case of the switch in SetAttributes
SetSlot(a) ==
  CASE a = "kPosition3f" -> kAttributePosition
    [] a = "kNormal3f"   -> kAttributeNormal
    [] a = "kTexCoord2f" -> kAttributeTexCoord
    [] a = "kColor4ub"   -> kAttributeColor

\* glVertexAttribPointer(slot, components, type, normalized, stride, pointer)
SetPointer(a, stride, ptr) ==
  CASE a = "kPosition3f" -> <<"AttribPointer", kAttributePosition, 3, GL_FLOAT, 0, stride, ptr>>
    [] a = "kNormal3f"   -> <<"AttribPointer", kAttributeNormal, 3, GL_FLOAT, 0, stride, ptr>>
    [] a = "kTexCoord2f" -> <<"AttribPointer", kAttributeTexCoord, 2, GL_FLOAT, 0, stride, ptr>>
    [] a = "kColor4ub"   -> <<"AttribPointer", kAttributeColor, 4, GL_UNSIGNED_BYTE, 1, stride, ptr>>

\* a plausible slip: the texture coordinate advanced like a 3-float field
OffsetStep_TexCoordAsThreeFloats(a) ==
  CASE a = "kPosition3f" -> 3 * 4
    [] a = "kNormal3f"   -> 3 * 4
    [] a = "kTexCoord2f" -> 3 * 4
    [] a = "kColor4ub"   -> 4

\* a plausible slip: the colour field advanced like a 4-float field
OffsetStep_ColorAsFloats(a) ==
  CASE a = "kPosition3f" -> 3 * 4
    [] a = "kNormal3f"   -> 3 * 4
    [] a = "kTexCoord2f" -> 2 * 4
    [] a = "kColor4ub"   -> 4 * 4

\* offset += ... of each case (sizeof(float) = 4)
OffsetStep(a) ==
  CASE a = "kPosition3f" -> 3 * 4
    [] a = "kNormal3f"   -> 3 * 4
    [] a = "kTexCoord2f" -> 2 * 4
    [] a = "kColor4ub"   -> 4

\* the for(;;) loop of SetAttributes from element i with running offset:
\* the calls issued and the offset at return
RECURSIVE SetAttributesLoop(_, _, _, _, _)
SetAttributesLoop(attributes, i, stride, buffer, offset) ==
  IF attributes[i] = "kEND"
  THEN [calls |-> <<>>, offset |-> offset]
  ELSE LET a == attributes[i]
           rest == SetAttributesLoop(attributes, i + 1, stride, buffer,
                                     offset + OffsetStep(a))
       IN  [calls |-> << <<"EnableAttrib", SetSlot(a)>>,
                         SetPointer(a, stride, buffer + offset) >> \o rest.calls,
            offset |-> rest.offset]

SetAttributes(vbo, attributes, stride, buffer) ==
  LET loop == SetAttributesLoop(attributes, 1, stride, buffer, 0)
  IN  [calls |-> << <<"BindArrayBuffer", vbo>> >> \o loop.calls,
       offset |-> loop.offset]

\* a plausible slip: the colour case disables the texcoord slot (copy-paste)
UnSetSlot_ColorCopyPaste(a) ==
  CASE a = "kPosition3f" -> kAttributePosition
    [] a = "kNormal3f"   -> kAttributeNormal
    [] a = "kTexCoord2f" -> kAttributeTexCoord
    [] a = "kColor4ub"   -> kAttributeTexCoord

\* slot disabled by each case of the switch in UnSetAttributes
UnSetSlot(a) ==
  CASE a = "kPosition3f" -> kAttributePosition
    [] a = "kNormal3f"   -> kAttributeNormal
    [] a = "kTexCoord2f" -> kAttributeTexCoord
    [] a = "kColor4ub"   -> kAttributeColor

RECURSIVE UnSetAttributesLoop(_, _)
UnSetAttributesLoop(attributes, i) ==
  IF attributes[i] = "kEND"
  THEN <<>>
  ELSE << <<"DisableAttrib", UnSetSlot(attributes[i])>> >>
         \o UnSetAttributesLoop(attributes, i + 1)

UnSetAttributes(attributes) == UnSetAttributesLoop(attributes, 1)

\* effect of glEnableVertexAttribArray / glDisableVertexAttribArray calls on
\* the enabled flags of the pipeline
RECURSIVE ApplyAttribCalls(_, _, _)
ApplyAttribCalls(calls, i, enabled) ==
  IF i > Len(calls) THEN enabled
  ELSE LET c == calls[i]
       IN  ApplyAttribCalls(calls, i + 1,
             IF c[1] = "EnableAttrib" THEN [enabled EXCEPT ![c[2]] = TRUE]
             ELSE IF c[1] = "DisableAttrib" THEN [enabled EXCEPT ![c[2]] = FALSE]
             ELSE enabled)

----------------------------------------------------------------------------
(* Material (declared outside this file): activation of a range's material *)

MaterialSet(mat) == << <<"MaterialSet", mat>> >>

----------------------------------------------------------------------------
(* Mesh *)

NoMesh == [phase |-> "unborn", vbo_ |-> 0, vertex_size_ |-> 0,
           format_ |-> <<"kEND">>, indices_ |-> <<>>]

\* Mesh::Mesh: glGenBuffers, bind, upload; stores vertex_size and format
MeshCtor(m, count, vertex_size, format) ==
  /\ meshes[m].phase = "unborn"
  /\ \A o \in MeshIds : o < m => meshes[o].phase # "unborn"
  /\ nextBuf \in BufIds
  /\ meshes' = [meshes EXCEPT ![m] =
        [phase |-> "live", vbo_ |-> nextBuf, vertex_size_ |-> vertex_size,
         format_ |-> format, indices_ |-> <<>>]]
  /\ nextBuf' = nextBuf + 1
  /\ glLog' = << <<"GenBuffer", nextBuf>>, <<"BindArrayBuffer", nextBuf>>,
                 <<"BufferDataArray", count * vertex_size>> >>
  /\ lastOp' = [op |-> "Mesh", mesh |-> m]
  /\ UNCHANGED <<slotEnabled, bufDeleted, rendererVars, last_error_, shaderVars, textureVars>>

\* a plausible slip: the new range is put in front of the earlier ones
AddIndices_InsertsAtFront(m, count, mat) ==
  /\ meshes[m].phase = "live"
  /\ Len(meshes[m].indices_) < MaxRanges
  /\ nextBuf \in BufIds
  /\ meshes' = [meshes EXCEPT ![m].indices_ =
        <<[count |-> count, ibo |-> nextBuf, mat |-> mat]>> \o @]
  /\ nextBuf' = nextBuf + 1
  /\ glLog' = << <<"GenBuffer", nextBuf>>, <<"BindElementBuffer", nextBuf>>,
                 <<"BufferDataElement", count * 4>> >>
  /\ lastOp' = [op |-> "AddIndices", mesh |-> m, count |-> count, mat |-> mat]
  /\ UNCHANGED <<slotEnabled, bufDeleted, rendererVars, last_error_, shaderVars, textureVars>>

\* Mesh::AddIndices: push_back, glGenBuffers into the new element, upload
AddIndices(m, count, mat) ==
  /\ meshes[m].phase = "live"
  /\ Len(meshes[m].indices_) < MaxRanges
  /\ nextBuf \in BufIds
  /\ meshes' = [meshes EXCEPT ![m].indices_ =
        Append(@, [count |-> count, ibo |-> nextBuf, mat |-> mat])]
  /\ nextBuf' = nextBuf + 1
  /\ glLog' = << <<"GenBuffer", nextBuf>>, <<"BindElementBuffer", nextBuf>>,
                 <<"BufferDataElement", count * 4>> >>
  /\ lastOp' = [op |-> "AddIndices", mesh |-> m, count |-> count, mat |-> mat]
  /\ UNCHANGED <<slotEnabled, bufDeleted, rendererVars, last_error_, shaderVars, textureVars>>

\* the loop of Mesh::Render over indices_ from element i
RECURSIVE RenderLoop(_, _)
RenderLoop(indices, i) ==
  IF i > Len(indices) THEN <<>>
  ELSE MaterialSet(indices[i].mat)
         \o << <<"BindElementBuffer", indices[i].ibo>>,
               <<"DrawElements", GL_TRIANGLES, indices[i].count>> >>
         \o RenderLoop(indices, i + 1)

\* a plausible slip: attributes bound and unbound around every range
RenderCalls_BindPerRange(mesh) ==
  LET one(i) == SetAttributes(mesh.vbo_, mesh.format_, mesh.vertex_size_, 0).calls
                  \o RenderLoop(<<mesh.indices_[i]>>, 1)
                  \o UnSetAttributes(mesh.format_)
      RECURSIVE all(_)
      all(i) == IF i > Len(mesh.indices_) THEN <<>> ELSE one(i) \o all(i + 1)
  IN  all(1)

\* the calls of Mesh::Render, in order
RenderCalls(mesh) ==
  SetAttributes(mesh.vbo_, mesh.format_, mesh.vertex_size_, 0).calls
    \o RenderLoop(mesh.indices_, 1)
    \o UnSetAttributes(mesh.format_)

Render(m) ==
  /\ meshes[m].phase = "live"
  /\ glLog' = RenderCalls(meshes[m])
  /\ slotEnabled' = ApplyAttribCalls(glLog', 1, slotEnabled)
  /\ lastOp' = [op |-> "Render", mesh |-> m, format |-> meshes[m].format_,
                stride |-> meshes[m].vertex_size_, buffer |-> 0,
                offset |-> SetAttributes(meshes[m].vbo_, meshes[m].format_,
                                         meshes[m].vertex_size_, 0).offset]
  /\ UNCHANGED <<meshes, bufDeleted, nextBuf, rendererVars, last_error_, shaderVars, textureVars>>

\* Mesh::RenderArray (static): attributes from caller memory, one draw
RenderArrayCalls(primitive, index_count, format, vertex_size, vertices) ==
  SetAttributes(0, format, vertex_size, vertices).calls
    \o << <<"BindElementBuffer", 0>>, <<"DrawElements", primitive, index_count>> >>
    \o UnSetAttributes(format)

RenderArray(primitive, index_count, format, vertex_size, vertices) ==
  /\ glLog' = RenderArrayCalls(primitive, index_count, format, vertex_size, vertices)
  /\ slotEnabled' = ApplyAttribCalls(glLog', 1, slotEnabled)
  /\ lastOp' = [op |-> "RenderArray", mesh |-> 0, format |-> format,
                stride |-> vertex_size, buffer |-> vertices,
                offset |-> SetAttributes(0, format, vertex_size, vertices).offset]
  /\ UNCHANGED <<meshes, bufDeleted, nextBuf, rendererVars, last_error_, shaderVars, textureVars>>

\* the loop of Mesh::~Mesh over indices_ from element i
RECURSIVE DtorLoop(_, _)
DtorLoop(indices, i) ==
  IF i > Len(indices) THEN <<>>
  ELSE << <<"DeleteBuffer", indices[i].ibo>> >> \o DtorLoop(indices, i + 1)

\* a plausible slip: the loop deletes the vertex buffer again instead of it->ibo
DtorCalls_DeleteVboInLoop(mesh) ==
  << <<"DeleteBuffer", mesh.vbo_>> >>
    \o [i \in 1 .. Len(mesh.indices_) |-> <<"DeleteBuffer", mesh.vbo_>>]

\* the calls of Mesh::~Mesh, in order
DtorCalls(mesh) ==
  << <<"DeleteBuffer", mesh.vbo_>> >> \o DtorLoop(mesh.indices_, 1)

\* effect of glDeleteBuffers calls on the per-handle deletion count
RECURSIVE ApplyDeleteCalls(_, _, _)
ApplyDeleteCalls(calls, i, deleted) ==
  IF i > Len(calls) THEN deleted
  ELSE ApplyDeleteCalls(calls, i + 1,
         IF calls[i][1] = "DeleteBuffer"
         THEN [deleted EXCEPT ![calls[i][2]] = @ + 1]
         ELSE deleted)

MeshDtor(m) ==
  /\ meshes[m].phase = "live"
  /\ glLog' = DtorCalls(meshes[m])
  /\ bufDeleted' = ApplyDeleteCalls(glLog', 1, bufDeleted)
  /\ meshes' = [meshes EXCEPT ![m] = [NoMesh EXCEPT !.phase = "destroyed"]]
  /\ lastOp' = [op |-> "~Mesh", mesh |-> m]
  /\ UNCHANGED <<slotEnabled, nextBuf, rendererVars, last_error_, shaderVars, textureVars>>

----------------------------------------------------------------------------
(* Renderer::Initialize / Renderer::ShutDown *)

\* texts SDL_GetError can return
SdlErrors == {"No available video device", "Out of memory"}

\* entry points resolved through GLEXT (GLBASEEXTS GLEXTS)
GlFunctions == {"glActiveTexture", "glCreateShader"}

\* where Initialize can fail on each build: the extension check is compiled
\* out on mobile, the GLEXT lookups on mobile and on Apple
InitFailures(p) ==
  {"SDL_Init", "SDL_CreateWindow", "SDL_GL_CreateContext"}
    \cup (IF p # "mobile" THEN {"extensions"} ELSE {})
    \cup (IF p = "desktop" THEN {"GLEXT"} ELSE {})

\* Renderer::Initialize failing at step failAt ("none": every step succeeds):
\* the return value, the members assigned, the SDL calls that create
\* something, and last_error_ at return (err is its value at entry)
InitializeResult(failAt, sdlError, missing, err) ==
  CASE failAt = "SDL_Init" ->
         [ret |-> FALSE, window |-> window_, context |-> context_,
          calls |-> << <<"SDL_Init">> >>,
          last_error |-> <<"SDL_Init fail: ", sdlError>>]
    [] failAt = "SDL_CreateWindow" ->
         [ret |-> FALSE, window |-> 0, context |-> context_,
          calls |-> << <<"SDL_Init">>, <<"SDL_CreateWindow", 0>> >>,
          last_error |-> <<"SDL_CreateWindow fail: ", sdlError>>]
    [] failAt = "SDL_GL_CreateContext" ->
         [ret |-> FALSE, window |-> 1, context |-> 0,
          calls |-> << <<"SDL_Init">>, <<"SDL_CreateWindow", 1>>,
                       <<"SDL_GL_CreateContext", 0>> >>,
          last_error |-> <<"SDL_GL_CreateContext fail: ", sdlError>>]
    [] failAt = "extensions" ->
         [ret |-> FALSE, window |-> 1, context |-> 1,
          calls |-> << <<"SDL_Init">>, <<"SDL_CreateWindow", 1>>,
                       <<"SDL_GL_CreateContext", 1>> >>,
          last_error |-> <<"missing GL extensions">>]
    [] failAt = "GLEXT" ->
         [ret |-> FALSE, window |-> 1, context |-> 1,
          calls |-> << <<"SDL_Init">>, <<"SDL_CreateWindow", 1>>,
                       <<"SDL_GL_CreateContext", 1>> >>,
          last_error |-> <<"could not retrieve GL function pointer ", missing>>]
    [] failAt = "none" ->
         [ret |-> TRUE, window |-> 1, context |-> 1,
          calls |-> << <<"SDL_Init">>, <<"SDL_CreateWindow", 1>>,
                       <<"SDL_GL_CreateContext", 1>> >>,
          last_error |-> err]

\* the windows and contexts in being after the SDL calls: a creating call
\* that returns a non-null handle has created one
SdlCreatedBy(calls, created) ==
  [window |-> created.window
      + Cardinality({i \in DOMAIN calls : calls[i][1] = "SDL_CreateWindow" /\ calls[i][2] # 0}),
   context |-> created.context
      + Cardinality({i \in DOMAIN calls : calls[i][1] = "SDL_GL_CreateContext" /\ calls[i][2] # 0})]

Initialize(failAt, sdlError, missing) ==
  /\ ~initialized
  /\ failAt \in InitFailures(platform) \cup {"none"}
  /\ LET r == InitializeResult(failAt, sdlError, missing, last_error_)
     IN  /\ window_' = r.window
         /\ context_' = r.context
         /\ last_error_' = r.last_error
         /\ glLog' = r.calls
         /\ lastOp' = [op |-> "Initialize", ret |-> r.ret, failAt |-> failAt,
                       sdlError |-> sdlError, missing |-> missing]
  /\ initialized' = TRUE
  /\ sdlCreated' = SdlCreatedBy(glLog', sdlCreated)
  /\ UNCHANGED <<platform, sdlDestroyed, meshVars, shaderVars, textureVars>>

\* a plausible slip: the window is destroyed but window_ keeps the handle
ShutDown_KeepsWindow ==
  /\ glLog' = (IF context_ # 0 THEN << <<"SDL_GL_DeleteContext", context_>> >> ELSE <<>>)
                \o (IF window_ # 0 THEN << <<"SDL_DestroyWindow", window_>> >> ELSE <<>>)
  /\ sdlDestroyed' = [window |-> sdlDestroyed.window + (IF window_ # 0 THEN 1 ELSE 0),
                      context |-> sdlDestroyed.context + (IF context_ # 0 THEN 1 ELSE 0)]
  /\ context_' = 0
  /\ window_' = window_
  /\ lastOp' = [op |-> "ShutDown"]
  /\ UNCHANGED <<platform, initialized, sdlCreated, last_error_, meshVars, shaderVars,
                 textureVars>>

\* Renderer::ShutDown
ShutDown ==
  /\ glLog' = (IF context_ # 0 THEN << <<"SDL_GL_DeleteContext", context_>> >> ELSE <<>>)
                \o (IF window_ # 0 THEN << <<"SDL_DestroyWindow", window_>> >> ELSE <<>>)
  /\ sdlDestroyed' = [window |-> sdlDestroyed.window + (IF window_ # 0 THEN 1 ELSE 0),
                      context |-> sdlDestroyed.context + (IF context_ # 0 THEN 1 ELSE 0)]
  /\ context_' = 0
  /\ window_' = 0
  /\ lastOp' = [op |-> "ShutDown"]
  /\ UNCHANGED <<platform, initialized, sdlCreated, last_error_, meshVars, shaderVars,
                 textureVars>>

----------------------------------------------------------------------------
(* Renderer::CompileShader / Renderer::CompileAndLinkShader / Shader *)

GL_VERTEX_SHADER == 35633
GL_FRAGMENT_SHADER == 35632

\* what the driver makes of a source: whether it compiles, and its info log
GoodSource == [compiles |-> TRUE, log |-> ""]
BadSource(l) == [compiles |-> FALSE, log |-> l]

CompileLogs == {"0:1: syntax error", ""}
LinkLogs == {"varying not written by vertex shader"}

\* the uniforms a linked program declares, in location order
UniformSets ==
  { <<>>,
    <<"color">>,
    <<"model_view_projection", "texture_unit_0">>,
    <<"texture_unit_0", "color", "model_view_projection">> }

\* arguments of CompileAndLinkShader, as the driver treats them
CompileInputs ==
  {[vs |-> BadSource(l), ps |-> GoodSource, links |-> TRUE, linkLog |-> "",
    uniforms |-> <<>>] : l \in CompileLogs}
  \cup {[vs |-> GoodSource, ps |-> BadSource(l), links |-> TRUE, linkLog |-> "",
         uniforms |-> <<>>] : l \in CompileLogs}
  \cup {[vs |-> GoodSource, ps |-> GoodSource, links |-> FALSE, linkLog |-> l,
         uniforms |-> <<>>] : l \in LinkLogs}
  \cup {[vs |-> GoodSource, ps |-> GoodSource, links |-> TRUE, linkLog |-> "",
         uniforms |-> u] : u \in UniformSets}

\* a std::string as the tuple of its parts; the empty string is <<>>
Text(str) == IF str = "" THEN <<>> ELSE <<str>>

\* glShaderSource with the platform preamble prepended
ShaderSourceCall(shader_obj) ==
  IF platform = "mobile"
  THEN <<"ShaderSourcePrecisionHighp", shader_obj>>
  ELSE <<"ShaderSourceVersion120", shader_obj>>

\* a plausible slip: the failure branch leaves last_error_ as it was
CompileShader_KeepsOldError(stage, program, source, shader_obj, err) ==
  LET head == << <<"CreateShader", stage, shader_obj>>, ShaderSourceCall(shader_obj),
                 <<"CompileShader", shader_obj>> >>
  IN  IF source.compiles
      THEN [ret |-> shader_obj, last_error |-> err,
            calls |-> head \o << <<"AttachShader", program, shader_obj>> >>]
      ELSE [ret |-> 0, last_error |-> err,
            calls |-> head \o << <<"DeleteShader", shader_obj>> >>]

\* a plausible slip: the stage is attached before its compile status is read
CompileShader_AttachesFailedStage(stage, program, source, shader_obj, err) ==
  LET head == << <<"CreateShader", stage, shader_obj>>, ShaderSourceCall(shader_obj),
                 <<"CompileShader", shader_obj>>,
                 <<"AttachShader", program, shader_obj>> >>
  IN  IF source.compiles
      THEN [ret |-> shader_obj, last_error |-> err, calls |-> head]
      ELSE [ret |-> 0, last_error |-> Text(source.log),
            calls |-> head \o << <<"GetShaderInfoLog", shader_obj>>,
                                 <<"DeleteShader", shader_obj>> >>]

\* Renderer::CompileShader, glCreateShader returning shader_obj: the return
\* value, the GL calls and last_error_ at return (err is its value at entry)
CompileShader(stage, program, source, shader_obj, err) ==
  LET head == << <<"CreateShader", stage, shader_obj>>, ShaderSourceCall(shader_obj),
                 <<"CompileShader", shader_obj>> >>
  IN  IF source.compiles
      THEN [ret |-> shader_obj, last_error |-> err,
            calls |-> head \o << <<"AttachShader", program, shader_obj>> >>]
      ELSE [ret |-> 0, last_error |-> Text(source.log),
            calls |-> head \o << <<"GetShaderInfoLog", shader_obj>>,
                                 <<"DeleteShader", shader_obj>> >>]

\* glGetUniformLocation: the position of the name among the program's
\* uniforms, -1 when the program does not declare it
GetUniformLocation(uniforms, name) ==
  IF \E i \in DOMAIN uniforms : uniforms[i] = name
  THEN (CHOOSE i \in DOMAIN uniforms : uniforms[i] = name) - 1
  ELSE -1

\* Shader::Initialize on a program declaring `uniforms`, while `current` is
\* the current program: the three locations and the uniform write; a uniform
\* call is recorded with the program it acts on, the current one
ShaderInitialize(program_, uniforms, current) ==
  LET mvp == GetUniformLocation(uniforms, "model_view_projection")
      color == GetUniformLocation(uniforms, "color")
      tex == GetUniformLocation(uniforms, "texture_unit_0")
  IN  [uniform_model_view_projection_ |-> mvp,
       uniform_color_ |-> color,
       uniform_texture_unit_0 |-> tex,
       calls |-> IF tex >= 0 THEN << <<"Uniform1i", tex, 0, current>> >> ELSE <<>>]

\* a plausible slip: the colour upload is not guarded
ShaderSetCalls_ColorUnguarded(shader) ==
  << <<"UseProgram", shader.program_>> >>
    \o (IF shader.uniform_model_view_projection_ >= 0
        THEN << <<"UniformMatrix4fv", shader.uniform_model_view_projection_, 1,
                  shader.program_>> >>
        ELSE <<>>)
    \o << <<"Uniform4fv", shader.uniform_color_, 1, shader.program_>> >>

\* the calls of Shader::Set: the uniform writes follow glUseProgram(program_),
\* so they act on program_
ShaderSetCalls(shader) ==
  << <<"UseProgram", shader.program_>> >>
    \o (IF shader.uniform_model_view_projection_ >= 0
        THEN << <<"UniformMatrix4fv", shader.uniform_model_view_projection_, 1,
                  shader.program_>> >>
        ELSE <<>>)
    \o (IF shader.uniform_color_ >= 0
        THEN << <<"Uniform4fv", shader.uniform_color_, 1, shader.program_>> >>
        ELSE <<>>)

\* a plausible slip: the attribute names are registered after the link
LinkCalls_BindsAfterLink(program) ==
  << <<"LinkProgram", program>>,
     <<"BindAttribLocation", program, kAttributePosition, "aPosition">>,
     <<"BindAttribLocation", program, kAttributeNormal, "aNormal">>,
     <<"BindAttribLocation", program, kAttributeTexCoord, "aTexCoord">>,
     <<"BindAttribLocation", program, kAttributeColor, "aColor">> >>

\* the four glBindAttribLocation calls and glLinkProgram
LinkCalls(program) ==
  << <<"BindAttribLocation", program, kAttributePosition, "aPosition">>,
     <<"BindAttribLocation", program, kAttributeNormal, "aNormal">>,
     <<"BindAttribLocation", program, kAttributeTexCoord, "aTexCoord">>,
     <<"BindAttribLocation", program, kAttributeColor, "aColor">>,
     <<"LinkProgram", program>> >>

\* a plausible slip: the vertex stage is not deleted when the fragment stage
\* fails to compile (glDeleteShader(vs) inside the if (ps) block)
CompileAndLinkResult_LeaksVs(src, program, first, err, current) ==
  LET create == << <<"CreateProgram", program>> >>
      vs == CompileShader(GL_VERTEX_SHADER, program, src.vs, first, err)
      ps == CompileShader(GL_FRAGMENT_SHADER, program, src.ps, first + 1, vs.last_error)
      link == LinkCalls(program)
      init == ShaderInitialize(program, src.uniforms, current)
  IN  IF vs.ret = 0
      THEN [ok |-> FALSE, last_error |-> vs.last_error, created |-> 1,
            calls |-> create \o vs.calls \o << <<"DeleteProgram", program>> >>]
      ELSE IF ps.ret = 0
      THEN [ok |-> FALSE, last_error |-> ps.last_error, created |-> 2,
            calls |-> create \o vs.calls \o ps.calls
                        \o << <<"DeleteProgram", program>> >>]
      ELSE IF src.links
      THEN [ok |-> TRUE, last_error |-> ps.last_error, created |-> 2,
            shader |-> [program_ |-> program, vs_ |-> vs.ret, ps_ |-> ps.ret,
                        uniform_model_view_projection_ |-> init.uniform_model_view_projection_,
                        uniform_color_ |-> init.uniform_color_,
                        uniform_texture_unit_0 |-> init.uniform_texture_unit_0],
            calls |-> create \o vs.calls \o ps.calls \o link \o init.calls
                        \o << <<"UseProgram", program>> >>]
      ELSE [ok |-> FALSE, last_error |-> Text(src.linkLog), created |-> 2,
            calls |-> create \o vs.calls \o ps.calls \o link
                        \o << <<"GetProgramInfoLog", program>>,
                              <<"DeleteShader", ps.ret>>,
                              <<"DeleteShader", vs.ret>>,
                              <<"DeleteProgram", program>> >>]

\* Renderer::CompileAndLinkShader, glCreateProgram returning `program` and
\* glCreateShader returning `first`, then `first + 1`: whether a Shader is
\* returned, the Shader, the number of stages created, the GL calls in order
\* and last_error_ at return
CompileAndLinkResult(src, program, first, err, current) ==
  LET create == << <<"CreateProgram", program>> >>
      vs == CompileShader(GL_VERTEX_SHADER, program, src.vs, first, err)
      ps == CompileShader(GL_FRAGMENT_SHADER, program, src.ps, first + 1, vs.last_error)
      link == LinkCalls(program)
      init == ShaderInitialize(program, src.uniforms, current)
  IN  IF vs.ret = 0
      THEN [ok |-> FALSE, last_error |-> vs.last_error, created |-> 1,
            calls |-> create \o vs.calls \o << <<"DeleteProgram", program>> >>]
      ELSE IF ps.ret = 0
      THEN [ok |-> FALSE, last_error |-> ps.last_error, created |-> 2,
            calls |-> create \o vs.calls \o ps.calls
                        \o << <<"DeleteShader", vs.ret>>,
                              <<"DeleteProgram", program>> >>]
      ELSE IF src.links
      THEN [ok |-> TRUE, last_error |-> ps.last_error, created |-> 2,
            shader |-> [program_ |-> program, vs_ |-> vs.ret, ps_ |-> ps.ret,
                        uniform_model_view_projection_ |-> init.uniform_model_view_projection_,
                        uniform_color_ |-> init.uniform_color_,
                        uniform_texture_unit_0 |-> init.uniform_texture_unit_0],
            calls |-> create \o vs.calls \o ps.calls \o link \o init.calls
                        \o << <<"UseProgram", program>> >>]
      ELSE [ok |-> FALSE, last_error |-> Text(src.linkLog), created |-> 2,
            calls |-> create \o vs.calls \o ps.calls \o link
                        \o << <<"GetProgramInfoLog", program>>,
                              <<"DeleteShader", ps.ret>>,
                              <<"DeleteShader", vs.ret>>,
                              <<"DeleteProgram", program>> >>]

\* effect of the calls on the GL objects: deletion counts, attachments and the
\* current program
RECURSIVE ApplyShaderCalls(_, _, _)
ApplyShaderCalls(calls, i, gl) ==
  IF i > Len(calls) THEN gl
  ELSE LET c == calls[i]
       IN  ApplyShaderCalls(calls, i + 1,
             CASE c[1] = "DeleteShader" ->
                    [gl EXCEPT !.shaderDeleted[c[2]] = @ + 1]
               [] c[1] = "DeleteProgram" ->
                    [gl EXCEPT !.progDeleted[c[2]] = @ + 1]
               [] c[1] = "AttachShader" ->
                    [gl EXCEPT !.attached[c[2]] = @ \cup {c[3]}]
               [] c[1] = "UseProgram" ->
                    [gl EXCEPT !.current = c[2]]
               [] OTHER -> gl)

GlObjects == [shaderDeleted |-> shaderDeleted, progDeleted |-> progDeleted,
              attached |-> attached, current |-> currentProgram]

CompileAndLinkShader(src) ==
  /\ nextProgram \in ProgramIds
  /\ LET r == CompileAndLinkResult(src, nextProgram, nextShader, last_error_,
                                   currentProgram)
         gl == ApplyShaderCalls(r.calls, 1, GlObjects)
     IN  /\ glLog' = r.calls
         /\ last_error_' = r.last_error
         /\ shaders' = IF r.ok THEN Append(shaders, r.shader) ELSE shaders
         /\ nextShader' = nextShader + r.created
         /\ shaderDeleted' = gl.shaderDeleted
         /\ progDeleted' = gl.progDeleted
         /\ attached' = gl.attached
         /\ currentProgram' = gl.current
         /\ lastOp' = [op |-> "CompileAndLinkShader",
                       ret |-> IF r.ok THEN Len(shaders) + 1 ELSE 0,
                       src |-> src, program |-> nextProgram]
  /\ nextProgram' = nextProgram + 1
  /\ UNCHANGED <<meshVars, rendererVars, textureVars>>

\* Shader::Set on the s-th Shader
ShaderSet(s) ==
  /\ s \in DOMAIN shaders
  /\ glLog' = ShaderSetCalls(shaders[s])
  /\ currentProgram' = ApplyShaderCalls(glLog', 1, GlObjects).current
  /\ lastOp' = [op |-> "Set", shader |-> s]
  /\ UNCHANGED <<meshVars, rendererVars, last_error_, shaders, nextProgram,
                 nextShader, progDeleted, shaderDeleted, attached, textureVars>>

----------------------------------------------------------------------------
(* Renderer::CreateTexture / Renderer::CreateTextureFromTGAMemory *)

\* a TGA file in memory: the 18-byte header (shorts stored low byte first),
\* the image-ID field, the pixel data
TgaFile(img) ==
  << img.id_len, img.color_map_type, img.image_type, 0, 0, 0, 0, 0,
     0, 0, 0, 0,
     img.width % 256, img.width \div 256, img.height % 256, img.height \div 256,
     img.bpp, img.image_descriptor >>
    \o [j \in 1 .. img.id_len |-> 200 + j]
    \o img.pixels

\* pixel data of n bytes, every byte different
PixelBytes(n) == [k \in 1 .. n |-> k]

\* images the header check accepts
AcceptedImages ==
  {[id_len |-> i, color_map_type |-> 0, image_type |-> 2, width |-> w,
    height |-> h, bpp |-> b, image_descriptor |-> d,
    pixels |-> PixelBytes(w * h * (b \div 8))] :
     i \in {0, 2}, w \in 0 .. MaxWidth, h \in 0 .. MaxHeight, b \in {24, 32},
     d \in {0, 32}}
  \cup
  {[id_len |-> 0, color_map_type |-> 0, image_type |-> 2, width |-> MaxWidth,
    height |-> MaxHeight, bpp |-> 32, image_descriptor |-> d,
    pixels |-> PixelBytes(MaxWidth * MaxHeight * 4)] : d \in {8, 40}}

\* images the header check rejects: colour-mapped, other image types, other
\* bit depths
RejectedImages ==
  {[id_len |-> 0, color_map_type |-> c, image_type |-> t, width |-> 1,
    height |-> 1, bpp |-> b, image_descriptor |-> 0, pixels |-> PixelBytes(4)] :
     c \in {0, 1}, t \in {1, 2, 10}, b \in {16, 24, 32}}
  \ {[id_len |-> 0, color_map_type |-> 0, image_type |-> 2, width |-> 1,
      height |-> 1, bpp |-> b, image_descriptor |-> 0, pixels |-> PixelBytes(4)] :
       b \in {24, 32}}

\* the fields of struct TGA read through the header pointer on a
\* little-endian host (byte offsets 0, 1, 2, 12, 14, 16, 17)
TgaHeader(tga_buf) ==
  [id_len |-> tga_buf[1],
   color_map_type |-> tga_buf[2],
   image_type |-> tga_buf[3],
   width |-> tga_buf[13] + 256 * tga_buf[14],
   height |-> tga_buf[15] + 256 * tga_buf[16],
   bpp |-> tga_buf[17],
   image_descriptor |-> tga_buf[18]]

\* a plausible slip: the bit depth is not checked
HeaderRejected_NoDepthCheck(header) ==
  \/ header.color_map_type # 0
  \/ header.image_type # 2

\* the header check
HeaderRejected(header) ==
  \/ header.color_map_type # 0
  \/ header.image_type # 2
  \/ (header.bpp # 32 /\ header.bpp # 24)

\* the 32-bit int whose two's complement halves are hi and lo (16 bits each)
Int32(hi, lo) == (IF hi >= 32768 THEN hi - 65536 ELSE hi) * 65536 + lo

\* the product of two unsigned shorts as a 32-bit int (wrapping), computed in
\* 16-bit halves
MulShorts(a, b) ==
  LET t == (a \div 256) * b
      u == (a % 256) * b
      lo == ((t % 256) * 256) + (u % 65536)
      hi == (t \div 256) + (u \div 65536) + (lo \div 65536)
  IN  Int32(hi % 65536, lo % 65536)

\* a 32-bit int times 4 as a 32-bit int (wrapping)
Mul4(v) ==
  LET lo == (v % 65536) * 4
      hi == ((((v - (v % 65536)) \div 65536) % 65536) * 4) + (lo \div 65536)
  IN  Int32(hi % 65536, lo % 65536)

\* int size = header->width * header->height
PixelCount(header) == MulShorts(header.width, header.height)

\* offset in tga_buf of the first pixel byte: header + 1, plus id_len
PixelsStart(header) == 18 + header.id_len

\* a plausible slip: the flip bit is ignored
ScanOrder_IgnoresFlip(header) ==
  [start_y |-> 0, end_y |-> header.height, y_direction |-> 1]

\* start_y, end_y, y_direction chosen from bit 0x20 of image_descriptor
ScanOrder(header) ==
  IF (header.image_descriptor \div 32) % 2 = 1
  THEN [start_y |-> header.height - 1, end_y |-> -1, y_direction |-> -1]
  ELSE [start_y |-> 0, end_y |-> header.height, y_direction |-> 1]

\* a plausible slip: the bytes are copied in stored order (no BGR -> RGB)
StorePixel_NoSwap(st, tga_buf, header, p) ==
  LET src(k) == tga_buf[st.pixels + k + 1]
      wide == header.bpp = 32
  IN  [rgba |-> [st.rgba EXCEPT ![p] = src(0), ![p + 1] = src(1),
                                ![p + 2] = src(2),
                                ![p + 3] = IF wide THEN src(3) ELSE 255],
       writes |-> [st.writes EXCEPT ![p] = @ + 1, ![p + 1] = @ + 1,
                                    ![p + 2] = @ + 1, ![p + 3] = @ + 1],
       pixels |-> st.pixels + (IF wide THEN 4 ELSE 3)]

\* the body of the inner loop for the pixel at rgba + p: st holds the output
\* buffer, how often each of its bytes was written, and the read pointer
\* `pixels` as an offset in tga_buf
StorePixel(st, tga_buf, header, p) ==
  LET src(k) == tga_buf[st.pixels + k + 1]
      wide == header.bpp = 32
  IN  [rgba |-> [st.rgba EXCEPT ![p + 2] = src(0), ![p + 1] = src(1),
                                ![p] = src(2),
                                ![p + 3] = IF wide THEN src(3) ELSE 255],
       writes |-> [st.writes EXCEPT ![p] = @ + 1, ![p + 1] = @ + 1,
                                    ![p + 2] = @ + 1, ![p + 3] = @ + 1],
       pixels |-> st.pixels + (IF wide THEN 4 ELSE 3)]

\* the two nested loops, from row y and column x on
RECURSIVE DecodeLoop(_, _, _, _, _, _)
DecodeLoop(tga_buf, header, scan, y, x, st) ==
  IF y = scan.end_y THEN st
  ELSE IF x < header.width
  THEN DecodeLoop(tga_buf, header, scan, y, x + 1,
                  StorePixel(st, tga_buf, header, (y * header.width + x) * 4))
  ELSE DecodeLoop(tga_buf, header, scan, y + scan.y_direction, 0, st)

\* new unsigned char[size * 4] (contents indeterminate, shown as -1) filled by
\* the loops
DecodeTGA(tga_buf) ==
  LET header == TgaHeader(tga_buf)
      bytes == Mul4(PixelCount(header))
      fresh == [rgba |-> [i \in 0 .. bytes - 1 |-> -1],
                writes |-> [i \in 0 .. bytes - 1 |-> 0],
                pixels |-> PixelsStart(header)]
      scan == ScanOrder(header)
  IN  DecodeLoop(tga_buf, header, scan, scan.start_y, 0, fresh)

\* the calls of Renderer::CreateTexture, glGenTextures returning texture_id
CreateTextureCalls(texture_id, size) ==
  << <<"GenTexture", texture_id>>, <<"ActiveTexture", 0>>,
     <<"BindTexture", texture_id>>,
     <<"TexParameteri", 10242, 10497>>, <<"TexParameteri", 10243, 10497>>,
     <<"TexParameteri", 10240, 9729>>, <<"TexParameteri", 10241, 9987>>,
     <<"TexImage2D", size[1], size[2]>>,
     <<"Enable", 3553>>, <<"Enable", 6406>>, <<"Enable", 3042>>,
     <<"BlendFunc", 770, 771>>, <<"Enable", 2929>>, <<"DepthFunc", 515>>,
     <<"AlphaFunc", 516>>, <<"Enable", 3008>>, <<"GenerateMipmap", 3553>> >>

\* the image glTexImage2D reads from buffer: size.x * size.y RGBA pixels
TexImage(buffer, size) == [i \in 1 .. size[1] * size[2] * 4 |-> buffer[i - 1]]

CreateTextureFromTGAMemory(img) ==
  LET tga_buf == TgaFile(img)
      header == TgaHeader(tga_buf)
      size == <<header.width, header.height>>
  IN  IF ~littleEndian \/ HeaderRejected(header)
      THEN /\ glLog' = <<>>
           /\ lastOp' = [op |-> "CreateTextureFromTGAMemory", img |-> img, ret |-> 0]
           /\ UNCHANGED <<textures, nextTexture>>
      ELSE /\ nextTexture \in TextureIds
           /\ LET st == DecodeTGA(tga_buf)
              IN  /\ glLog' = << <<"NewArray", Mul4(PixelCount(header))>> >>
                                \o CreateTextureCalls(nextTexture, size)
                                \o << <<"DeleteArray">> >>
                  /\ textures' = Append(textures,
                       [id |-> nextTexture, size |-> size,
                        image |-> TexImage(st.rgba, size)])
                  /\ lastOp' = [op |-> "CreateTextureFromTGAMemory", img |-> img,
                                ret |-> nextTexture, writes |-> st.writes,
                                consumed |-> st.pixels - PixelsStart(header)]
           /\ nextTexture' = nextTexture + 1

TextureFromTGA(img) ==
  /\ CreateTextureFromTGAMemory(img)
  /\ UNCHANGED <<littleEndian, meshVars, rendererVars, last_error_, shaderVars>>

----------------------------------------------------------------------------
(* Specification of the Mesh operations *)

\* a constructed Renderer owns no window and no context yet (the constructor
\* is declared with the class, outside renderer.cpp)
ConstructedRenderer == [window_ |-> 0, context_ |-> 0]

InitOn(p, le) ==
  /\ platform = p
  /\ littleEndian = le
  /\ textures = <<>>
  /\ nextTexture = 1
  /\ window_ = ConstructedRenderer.window_
  /\ context_ = ConstructedRenderer.context_
  /\ initialized = FALSE
  /\ sdlDestroyed = [window |-> 0, context |-> 0]
  /\ sdlCreated = [window |-> 0, context |-> 0]
  /\ last_error_ = <<>>
  /\ shaders = <<>>
  /\ currentProgram = 0
  /\ nextProgram = 1
  /\ nextShader = 1
  /\ progDeleted = [h \in ProgramIds |-> 0]
  /\ shaderDeleted = [h \in ShaderIds |-> 0]
  /\ attached = [h \in ProgramIds |-> {}]
  /\ meshes = [m \in MeshIds |-> NoMesh]
  /\ slotEnabled = [s \in Slots |-> FALSE]
  /\ bufDeleted = [b \in BufIds |-> 0]
  /\ nextBuf = 1
  /\ glLog = <<>>
  /\ lastOp = [op |-> "none"]

Init == InitOn("desktop", TRUE)

NextMesh ==
  \/ \E m \in MeshIds, l \in Layouts : MeshCtor(m, 3, l[2], l[1])
  \/ \E m \in MeshIds, a \in IndexArgs : AddIndices(m, a[1], a[2])
  \/ \E m \in MeshIds : Render(m)
  \/ \E a \in RenderArrayArgs : RenderArray(a[1], 3, a[2], a[3], a[4])
  \/ \E m \in MeshIds : MeshDtor(m)

SpecMesh == Init /\ [][NextMesh]_vars

----------------------------------------------------------------------------
(* Specification of the Renderer and Shader operations, on every build *)

InitAnyPlatform == \E p \in Platforms : InitOn(p, TRUE)

NextShader ==
  \/ \E f \in {"SDL_Init", "SDL_CreateWindow", "SDL_GL_CreateContext"}, e \in SdlErrors :
       Initialize(f, e, "")
  \/ Initialize("extensions", "", "")
  \/ \E g \in GlFunctions : Initialize("GLEXT", "", g)
  \/ Initialize("none", "", "")
  \/ ShutDown
  \/ \E src \in CompileInputs : CompileAndLinkShader(src)
  \/ \E s \in 1 .. MaxPrograms : ShaderSet(s)

SpecShader == InitAnyPlatform /\ [][NextShader]_vars

----------------------------------------------------------------------------
(* Specification of the TGA texture decoding, on hosts of either byte order *)

InitAnyHost == \E le \in BOOLEAN : InitOn("desktop", le)

NextTGA ==
  \/ \E img \in AcceptedImages : TextureFromTGA(img)
  \/ \E img \in RejectedImages : TextureFromTGA(img)

SpecTGA == InitAnyHost /\ [][NextTGA]_vars

----------------------------------------------------------------------------
(* Properties of the Mesh operations (checked under SpecMesh) *)

\* positions in glLog of the calls named `name`
Positions(name) == {i \in DOMAIN glLog : glLog[i][1] = name}

\* the n-th smallest element of a set of positions
Nth(S, n) == CHOOSE p \in S : Cardinality({q \in S : q < p}) = n - 1

\* number of fields of a kEND-terminated format
RECURSIVE FieldCount(_, _)
FieldCount(format, i) ==
  IF format[i] = "kEND" THEN 0 ELSE 1 + FieldCount(format, i + 1)

\* C1: Mesh.Render on a mesh with N index ranges issues exactly N draw calls;
\* the i-th draw is a triangle draw of the i-th range's count, and between the
\* previous draw and it exactly one material activation (the i-th range's
\* material) and exactly one index-buffer bind (the i-th range's buffer)
\* happen; the attributes are bound once before the first draw (one vertex
\* buffer bind, one enable per field) and unbound once after the last draw
\* (one disable per field).
C1_RenderDrawsEachRangeInOrder ==
  lastOp.op = "Render" =>
    LET mesh == meshes[lastOp.mesh]
        N == Len(mesh.indices_)
        D == Positions("DrawElements")
        fields == FieldCount(mesh.format_, 1)
    IN  /\ Cardinality(D) = N
        /\ \A i \in 1 .. N :
             LET p == Nth(D, i)
                 prev == IF i = 1 THEN 0 ELSE Nth(D, i - 1)
                 between(name) == {q \in Positions(name) : prev < q /\ q < p}
             IN  /\ glLog[p] = <<"DrawElements", GL_TRIANGLES, mesh.indices_[i].count>>
                 /\ Cardinality(between("MaterialSet")) = 1
                 /\ \A q \in between("MaterialSet") : glLog[q][2] = mesh.indices_[i].mat
                 /\ Cardinality(between("BindElementBuffer")) = 1
                 /\ \A q \in between("BindElementBuffer") :
                      glLog[q][2] = mesh.indices_[i].ibo
        /\ Positions("BindArrayBuffer") = {1}
        /\ glLog[1][2] = mesh.vbo_
        /\ Cardinality(Positions("EnableAttrib")) = fields
        /\ Cardinality(Positions("DisableAttrib")) = fields
        /\ \A e \in Positions("EnableAttrib"), d \in D : e < d
        /\ \A u \in Positions("DisableAttrib"), d \in D : d < u
        /\ \A e \in Positions("EnableAttrib"), u \in Positions("DisableAttrib") : e < u

\* a Render of a mesh with two ranges of different materials and a format
\* with fields
C1_Witness ==
  /\ lastOp.op = "Render"
  /\ Len(meshes[lastOp.mesh].indices_) = 2
  /\ meshes[lastOp.mesh].indices_[1].mat # meshes[lastOp.mesh].indices_[2].mat
  /\ FieldCount(meshes[lastOp.mesh].format_, 1) = 4
  /\ Cardinality(Positions("DrawElements")) = 2

\* C2: starting with all four attribute slots disabled, after every completed
\* Mesh.Render and Mesh.RenderArray (any format) all four slots are disabled.
C2_SlotsDisabledAfterRender ==
  \A s \in Slots : ~slotEnabled[s]

\* a RenderArray whose format enabled the colour and normal slots
C2_Witness ==
  /\ lastOp.op = "RenderArray"
  /\ \E i \in DOMAIN glLog : glLog[i] = <<"EnableAttrib", kAttributeColor>>
  /\ \E i \in DOMAIN glLog : glLog[i] = <<"EnableAttrib", kAttributeNormal>>
  /\ \A s \in Slots : ~slotEnabled[s]

\* the per-field byte sizes the claim C3 states
StatedFieldSize(a) ==
  CASE a = "kPosition3f" -> 12
    [] a = "kNormal3f"   -> 12
    [] a = "kTexCoord2f" -> 8
    [] a = "kColor4ub"   -> 4

RECURSIVE StatedSizeSum(_, _)
StatedSizeSum(format, i) ==
  IF format[i] = "kEND" THEN 0
  ELSE StatedFieldSize(format[i]) + StatedSizeSum(format, i + 1)

\* C3 as stated: the sum of the per-field byte sizes Bind accumulates equals the
\* stride Bind registers for every field of the format.
C3_SumEqualsRegisteredStride ==
  lastOp.op \in {"Render", "RenderArray"} =>
    \A q \in Positions("AttribPointer") : glLog[q][6] = lastOp.offset

\* C3 amended: Bind registers the caller's stride, unchanged, for every field,
\* and the sum of sizes it accumulates is 12 per Position3f, 12 per Normal3f,
\* 8 per TexCoord2f, 4 per Color4ub; Bind does not compare the two.
C3_StrideIsCallersAndSumIsOfFieldSizes ==
  lastOp.op \in {"Render", "RenderArray"} =>
    /\ \A q \in Positions("AttribPointer") : glLog[q][6] = lastOp.stride
    /\ lastOp.op = "Render" => lastOp.stride = meshes[lastOp.mesh].vertex_size_
    /\ lastOp.offset = StatedSizeSum(lastOp.format, 1)
    /\ Cardinality(Positions("AttribPointer")) = FieldCount(lastOp.format, 1)

\* a Bind of colour, normal, colour (20 bytes of fields) with a stride of 24
C3_Witness ==
  /\ lastOp.op = "RenderArray"
  /\ lastOp.format = <<"kColor4ub", "kNormal3f", "kColor4ub", "kEND">>
  /\ lastOp.offset = 20
  /\ Cardinality(Positions("AttribPointer")) = 3
  /\ \A q \in Positions("AttribPointer") : glLog[q][6] = 24

\* the buffers a mesh owns
BuffersOf(mesh) ==
  {mesh.vbo_} \cup {mesh.indices_[i].ibo : i \in DOMAIN mesh.indices_}

\* C6: destroying a mesh with k index ranges deletes its vertex buffer and each
\* of its k index buffers (k + 1 distinct handles, none deleted before) exactly
\* once and no other buffer; no other operation deletes a buffer.
C6_DtorDeletesOwnBuffersOnce ==
  [][ /\ \A m \in MeshIds :
           (meshes[m].phase = "live" /\ meshes'[m].phase = "destroyed") =>
             LET own == BuffersOf(meshes[m])
             IN  /\ Cardinality(own) = 1 + Len(meshes[m].indices_)
                 /\ \A b \in BufIds :
                      bufDeleted'[b] = IF b \in own THEN 1 ELSE bufDeleted[b]
                 /\ \A b \in own : bufDeleted[b] = 0
      /\ (\A m \in MeshIds : meshes'[m].phase = "destroyed" => meshes[m].phase = "destroyed")
           => bufDeleted' = bufDeleted
    ]_vars

\* a mesh with two ranges has just been destroyed (three buffers deleted once)
\* while another mesh with a range of its own is alive, its buffers untouched
C6_Witness ==
  /\ lastOp.op = "~Mesh"
  /\ Cardinality({b \in BufIds : bufDeleted[b] = 1}) = 3
  /\ \E m \in MeshIds :
       /\ meshes[m].phase = "live"
       /\ Len(meshes[m].indices_) >= 1
       /\ \A b \in BuffersOf(meshes[m]) : bufDeleted[b] = 0

----------------------------------------------------------------------------
(* Properties of the Renderer and Shader operations (checked under SpecShader) *)

\* handles created by the last operation
CreatedPrograms == {glLog[i][2] : i \in Positions("CreateProgram")}
CreatedShaders == {glLog[i][3] : i \in Positions("CreateShader")}

\* number of calls `name` on handle h in the last operation
CallsOn(name, h) == Cardinality({i \in Positions(name) : glLog[i][2] = h})

\* C4: when CompileAndLinkShader fails (vertex stage, fragment stage or link)
\* it returns null and the program and every stage it created in that call
\* have each been deleted exactly once, in that call; when it succeeds none of
\* them is deleted and the returned Shader holds the three handles. Handles
\* held by a Shader stay undeleted.
C4_FailurePathsReleaseHandlesOnce ==
  /\ lastOp.op = "CompileAndLinkShader" =>
       /\ Cardinality(CreatedPrograms) = 1
       /\ CreatedPrograms = {lastOp.program}
       /\ Cardinality(CreatedShaders) = (IF lastOp.src.vs.compiles THEN 2 ELSE 1)
       /\ (lastOp.ret = 0) <=>
            ~(lastOp.src.vs.compiles /\ lastOp.src.ps.compiles /\ lastOp.src.links)
       /\ lastOp.ret = 0 =>
            /\ \A h \in CreatedPrograms :
                 progDeleted[h] = 1 /\ CallsOn("DeleteProgram", h) = 1
            /\ \A h \in CreatedShaders :
                 shaderDeleted[h] = 1 /\ CallsOn("DeleteShader", h) = 1
       /\ lastOp.ret # 0 =>
            /\ Positions("DeleteProgram") = {} /\ Positions("DeleteShader") = {}
            /\ lastOp.ret = Len(shaders)
            /\ shaders[lastOp.ret].program_ = lastOp.program
            /\ CreatedShaders = {shaders[lastOp.ret].vs_, shaders[lastOp.ret].ps_}
            /\ shaders[lastOp.ret].vs_ # shaders[lastOp.ret].ps_
  /\ \A s \in DOMAIN shaders :
       /\ progDeleted[shaders[s].program_] = 0
       /\ shaderDeleted[shaders[s].vs_] = 0
       /\ shaderDeleted[shaders[s].ps_] = 0
  /\ \A h \in ProgramIds : progDeleted[h] <= 1
  /\ \A h \in ShaderIds : shaderDeleted[h] <= 1

\* a link failure after an earlier successful CompileAndLinkShader: the
\* program and both stages of the failed call deleted, the earlier ones kept
C4_Witness ==
  /\ lastOp.op = "CompileAndLinkShader"
  /\ lastOp.ret = 0
  /\ ~lastOp.src.links
  /\ Len(shaders) = 1
  /\ Cardinality(CreatedShaders) = 2
  /\ \A h \in CreatedShaders : shaderDeleted[h] = 1
  /\ progDeleted[lastOp.program] = 1
  /\ progDeleted[shaders[1].program_] = 0

\* the diagnostic of a failed Initialize
InitDiagnostic(failAt, sdlError, missing) ==
  CASE failAt = "SDL_Init" -> <<"SDL_Init fail: ", sdlError>>
    [] failAt = "SDL_CreateWindow" -> <<"SDL_CreateWindow fail: ", sdlError>>
    [] failAt = "SDL_GL_CreateContext" -> <<"SDL_GL_CreateContext fail: ", sdlError>>
    [] failAt = "extensions" -> <<"missing GL extensions">>
    [] failAt = "GLEXT" -> <<"could not retrieve GL function pointer ", missing>>

\* the info log of the step a failed CompileAndLinkShader failed at
CompileDiagnostic(src) ==
  IF ~src.vs.compiles THEN Text(src.vs.log)
  ELSE IF ~src.ps.compiles THEN Text(src.ps.log)
  ELSE Text(src.linkLog)

\* C5: after Initialize returns false, and after CompileShader /
\* CompileAndLinkShader return null, last_error_ holds the diagnostic of that
\* very failure (the SDL error with its prefix, the extension or entry-point
\* message, the info log of the stage or of the link), whatever it held before.
C5_FailureOverwritesLastError ==
  /\ (lastOp.op = "Initialize" /\ ~lastOp.ret) =>
       last_error_ = InitDiagnostic(lastOp.failAt, lastOp.sdlError, lastOp.missing)
  /\ (lastOp.op = "CompileAndLinkShader" /\ lastOp.ret = 0) =>
       last_error_ = CompileDiagnostic(lastOp.src)

\* Initialize has failed creating the context (the window is still held), and
\* now a link failure has replaced its text in last_error_
C5_Witness ==
  /\ initialized /\ window_ # 0 /\ context_ = 0
  /\ lastOp.op = "CompileAndLinkShader"
  /\ lastOp.ret = 0
  /\ ~lastOp.src.links
  /\ last_error_ = Text(lastOp.src.linkLog)
  /\ last_error_ # <<>>

UniformCalls == {"Uniform1i", "UniformMatrix4fv", "Uniform4fv"}

\* C10: Shader::Set makes the program current first, uploads the matrix iff
\* uniform_model_view_projection_ >= 0 and the colour iff uniform_color_ >= 0,
\* each once and at that location; Shader::Initialize writes texture unit 0
\* iff uniform_texture_unit_0 >= 0; no uniform write goes to a negative
\* location.
C10_UniformWritesGuardedByLocation ==
  /\ lastOp.op = "Set" =>
       LET sh == shaders[lastOp.shader]
           M == Positions("UniformMatrix4fv")
           C == Positions("Uniform4fv")
       IN  /\ glLog[1] = <<"UseProgram", sh.program_>>
           /\ Positions("UseProgram") = {1}
           /\ currentProgram = sh.program_
           /\ Cardinality(M) = (IF sh.uniform_model_view_projection_ >= 0 THEN 1 ELSE 0)
           /\ \A i \in M : glLog[i][2] = sh.uniform_model_view_projection_
           /\ Cardinality(C) = (IF sh.uniform_color_ >= 0 THEN 1 ELSE 0)
           /\ \A i \in C : glLog[i][2] = sh.uniform_color_
           /\ Positions("Uniform1i") = {}
  /\ (lastOp.op = "CompileAndLinkShader" /\ lastOp.ret # 0) =>
       LET sh == shaders[lastOp.ret]
           T == Positions("Uniform1i")
       IN  /\ Cardinality(T) = (IF sh.uniform_texture_unit_0 >= 0 THEN 1 ELSE 0)
           /\ \A i \in T : glLog[i][2] = sh.uniform_texture_unit_0 /\ glLog[i][3] = 0
  /\ \A i \in DOMAIN glLog : glLog[i][1] \in UniformCalls => glLog[i][2] >= 0

\* Set of a Shader whose program declares only `color` (location 0): the
\* colour is uploaded at location 0 and the matrix is skipped
C10_Witness ==
  /\ lastOp.op = "Set"
  /\ shaders[lastOp.shader].uniform_color_ = 0
  /\ shaders[lastOp.shader].uniform_model_view_projection_ = -1
  /\ Positions("Uniform4fv") = {2}
  /\ Positions("UniformMatrix4fv") = {}

----------------------------------------------------------------------------
(* Properties of the TGA decoding (checked under SpecTGA) *)

\* C7: a header with color_map_type # 0, or image_type # 2, or bpp not 24 or
\* 32 makes CreateTextureFromTGAMemory return 0 without allocating a pixel
\* buffer or creating a texture (it issues no call at all); on a little-endian
\* host a header with color_map_type = 0, image_type = 2 and bpp 24 or 32 is
\* decoded: a buffer is allocated, freed again, and the texture returned.
C7_UnsupportedHeadersRejected ==
  lastOp.op = "CreateTextureFromTGAMemory" =>
    LET img == lastOp.img
        unsupported == \/ img.color_map_type # 0
                       \/ img.image_type # 2
                       \/ img.bpp \notin {24, 32}
    IN  /\ unsupported =>
             /\ lastOp.ret = 0
             /\ glLog = <<>>
             /\ \A t \in DOMAIN textures : textures[t].id # lastOp.ret
        /\ (littleEndian /\ ~unsupported) =>
             /\ lastOp.ret # 0
             /\ Cardinality(Positions("NewArray")) = 1
             /\ Cardinality(Positions("DeleteArray")) = 1
             /\ Cardinality(Positions("GenTexture")) = 1
             /\ textures[Len(textures)].id = lastOp.ret
        /\ Len(textures) = nextTexture - 1

\* a 16-bit image, otherwise supported, is rejected on a little-endian host
\* that holds a texture decoded earlier
C7_Witness ==
  /\ lastOp.op = "CreateTextureFromTGAMemory"
  /\ littleEndian
  /\ lastOp.img.color_map_type = 0 /\ lastOp.img.image_type = 2
  /\ lastOp.img.bpp = 16
  /\ lastOp.ret = 0
  /\ Len(textures) = 1

\* the k-th byte (from 0) of the n-th pixel (from 0) stored in the file
StoredByte(img, n, k) == img.pixels[n * (img.bpp \div 8) + k + 1]

\* C8: for an accepted image without the flip bit, the uploaded buffer has
\* width*height*4 bytes and holds at offset (y*width + x)*4 the bytes R, G, B,
\* A of stored pixel y*width + x (stored as B, G, R and, at 32 bits, A; A is
\* 255 at 24 bits); every output byte is written exactly once and
\* width*height*(bpp/8) source bytes are consumed.
C8_UnflippedDecodeLayout ==
  (/\ lastOp.op = "CreateTextureFromTGAMemory"
   /\ lastOp.ret # 0
   /\ (lastOp.img.image_descriptor \div 32) % 2 = 0) =>
    LET img == lastOp.img
        w == img.width
        h == img.height
        out == textures[Len(textures)].image
    IN  /\ textures[Len(textures)].id = lastOp.ret
        /\ textures[Len(textures)].size = <<w, h>>
        /\ Len(out) = w * h * 4
        /\ \A y \in 0 .. h - 1, x \in 0 .. w - 1 :
             LET n == y * w + x
                 o == n * 4
             IN  /\ out[o + 1] = StoredByte(img, n, 2)
                 /\ out[o + 2] = StoredByte(img, n, 1)
                 /\ out[o + 3] = StoredByte(img, n, 0)
                 /\ out[o + 4] = IF img.bpp = 32 THEN StoredByte(img, n, 3) ELSE 255
        /\ DOMAIN lastOp.writes = 0 .. w * h * 4 - 1
        /\ \A i \in DOMAIN lastOp.writes : lastOp.writes[i] = 1
        /\ lastOp.consumed = w * h * (img.bpp \div 8)

\* an unflipped 24-bit image of MaxWidth x MaxHeight >= 2 x 2 pixels behind a
\* two-byte image-ID field has been decoded
C8_Witness ==
  /\ lastOp.op = "CreateTextureFromTGAMemory"
  /\ lastOp.ret # 0
  /\ lastOp.img.image_descriptor = 0
  /\ lastOp.img.id_len = 2
  /\ lastOp.img.bpp = 24
  /\ lastOp.img.width >= 2 /\ lastOp.img.height >= 2
  /\ Len(textures[Len(textures)].image) = lastOp.img.width * lastOp.img.height * 4
  /\ textures[Len(textures)].image[4] = 255

\* the image with the same header but the flip bit clear and the pixel rows
\* in reversed order
Unflipped(img) ==
  LET row == img.width * (img.bpp \div 8)
  IN  [img EXCEPT
         !.image_descriptor = img.image_descriptor - 32,
         !.pixels = [k \in 1 .. Len(img.pixels) |->
                       img.pixels[(img.height - 1 - ((k - 1) \div row)) * row
                                    + ((k - 1) % row) + 1]]]

\* C9: decoding an accepted image that has the flip bit set uploads exactly
\* the buffer that decoding the image with the rows reversed and the flip bit
\* clear produces; the decode returns for every height, 0 included.
C9_FlippedEqualsReversedRows ==
  (/\ lastOp.op = "CreateTextureFromTGAMemory"
   /\ littleEndian
   /\ lastOp.img \in AcceptedImages
   /\ (lastOp.img.image_descriptor \div 32) % 2 = 1) =>
    LET img == lastOp.img
        other == DecodeTGA(TgaFile(Unflipped(img)))
    IN  /\ lastOp.ret # 0
        /\ textures[Len(textures)].image
             = TexImage(other.rgba, <<img.width, img.height>>)
        /\ Len(textures[Len(textures)].image) = img.width * img.height * 4

\* a flipped 32-bit image of at least 2 x 2 pixels has been decoded; its first
\* output row comes from the last stored row
C9_Witness ==
  /\ lastOp.op = "CreateTextureFromTGAMemory"
  /\ lastOp.ret # 0
  /\ lastOp.img.image_descriptor = 32
  /\ lastOp.img.bpp = 32
  /\ lastOp.img.width >= 2 /\ lastOp.img.height >= 2
  /\ textures[Len(textures)].image[1]
       = StoredByte(lastOp.img, (lastOp.img.height - 1) * lastOp.img.width, 2)

\* a flipped image of height 0 has been decoded (the row loop did not run)
C9_ZeroHeightReached ==
  /\ lastOp.op = "CreateTextureFromTGAMemory"
  /\ lastOp.ret # 0
  /\ lastOp.img.image_descriptor = 32
  /\ lastOp.img.height = 0 /\ lastOp.img.width > 0
  /\ textures[Len(textures)].image = <<>>

----------------------------------------------------------------------------
(* Further properties of the shader operations (checked under SpecShader) *)

\* the last operation was a CompileAndLinkShader in which a stage failed to
\* compile
StageFailed ==
  /\ lastOp.op = "CompileAndLinkShader"
  /\ (~lastOp.src.vs.compiles \/ ~lastOp.src.ps.compiles)

\* the stage kind, source and handle of that failed stage
FailedStageKind ==
  IF ~lastOp.src.vs.compiles THEN GL_VERTEX_SHADER ELSE GL_FRAGMENT_SHADER

FailedStageSource ==
  IF ~lastOp.src.vs.compiles THEN lastOp.src.vs ELSE lastOp.src.ps

FailedStageHandle ==
  glLog[CHOOSE i \in Positions("CreateShader") : glLog[i][2] = FailedStageKind][3]

\* the calls of the CompileShader invocation that compiled the failed stage
FailedStageCompile ==
  CompileShader(FailedStageKind, lastOp.program, FailedStageSource,
                FailedStageHandle, <<>>)

\* that invocation's calls are a segment of the calls of the operation
IsSegmentOfLog(calls) ==
  \E k \in 0 .. Len(glLog) - Len(calls) :
    \A i \in DOMAIN calls : glLog[k + i] = calls[i]

\* C11 as stated: when a stage fails to compile, CompileShader returns the
\* null handle, never attaches the stage, and returns with the stage object
\* undeleted.
C11_FailedStageLeftUndeleted ==
  StageFailed =>
    /\ FailedStageCompile.ret = 0
    /\ FailedStageHandle \notin attached[lastOp.program]
    /\ \A i \in DOMAIN FailedStageCompile.calls :
         FailedStageCompile.calls[i] # <<"DeleteShader", FailedStageHandle>>

\* C11 amended: when a stage fails to compile, CompileShader returns the null
\* handle, never attaches the stage, and deletes the stage object itself, as
\* its last call before returning; the caller, holding only the null handle,
\* deletes it no second time.
C11_FailedStageDeletedByCompileShader ==
  StageFailed =>
    LET calls == FailedStageCompile.calls
    IN  /\ FailedStageCompile.ret = 0
        /\ lastOp.ret = 0
        /\ IsSegmentOfLog(calls)
        /\ FailedStageHandle \notin attached[lastOp.program]
        /\ \A i \in DOMAIN glLog :
             glLog[i][1] = "AttachShader" => glLog[i][3] # FailedStageHandle
        /\ calls[Len(calls)] = <<"DeleteShader", FailedStageHandle>>
        /\ CallsOn("DeleteShader", FailedStageHandle) = 1
        /\ shaderDeleted[FailedStageHandle] = 1

\* the fragment stage failed to compile after the vertex stage was compiled
\* and attached: the fragment stage is deleted and was never attached
C11_Witness ==
  /\ StageFailed
  /\ FailedStageKind = GL_FRAGMENT_SHADER
  /\ Cardinality(attached[lastOp.program]) = 1
  /\ FailedStageHandle \notin attached[lastOp.program]
  /\ shaderDeleted[FailedStageHandle] = 1

\* positions in glLog of the glCreateShader calls of a stage kind
StagePositions(stage) == {i \in Positions("CreateShader") : glLog[i][2] = stage}

\* the attribute names and the slots they are to be bound to
AttributeNames ==
  { <<kAttributePosition, "aPosition">>, <<kAttributeNormal, "aNormal">>,
    <<kAttributeTexCoord, "aTexCoord">>, <<kAttributeColor, "aColor">> }

\* C12: in every CompileAndLinkShader the vertex stage is compiled, and before
\* the fragment stage; the fragment stage is compiled only if (and whenever)
\* the vertex stage compiled; the link is issued only if (and whenever) both
\* compiled, once; each of aPosition, aNormal, aTexCoord, aColor is bound to
\* slot 0, 1, 2, 3 of the program before the link, and no name is bound after
\* it or without a link.
C12_CompileOrderAndBindBeforeLink ==
  lastOp.op = "CompileAndLinkShader" =>
    LET V == StagePositions(GL_VERTEX_SHADER)
        F == StagePositions(GL_FRAGMENT_SHADER)
        L == Positions("LinkProgram")
        B == Positions("BindAttribLocation")
    IN  /\ Cardinality(V) = 1
        /\ Cardinality(F) = (IF lastOp.src.vs.compiles THEN 1 ELSE 0)
        /\ \A v \in V, f \in F : v < f
        /\ Cardinality(L) =
             (IF lastOp.src.vs.compiles /\ lastOp.src.ps.compiles THEN 1 ELSE 0)
        /\ \A f \in F, l \in L : f < l
        /\ \A l \in L :
             /\ glLog[l][2] = lastOp.program
             /\ \A a \in AttributeNames :
                  \E b \in B : /\ b < l
                               /\ glLog[b][2] = lastOp.program
                               /\ glLog[b][3] = a[1]
                               /\ glLog[b][4] = a[2]
        /\ Cardinality(B) = 4 * Cardinality(L)
        /\ \A b \in B, l \in L : b < l

\* a CompileAndLinkShader that reached the link (which failed): two stages
\* compiled in order, four names bound, then the link
C12_Witness ==
  /\ lastOp.op = "CompileAndLinkShader"
  /\ ~lastOp.src.links
  /\ Cardinality(Positions("BindAttribLocation")) = 4
  /\ Cardinality(Positions("LinkProgram")) = 1
  /\ Cardinality(StagePositions(GL_FRAGMENT_SHADER)) = 1

----------------------------------------------------------------------------
(* Further properties of the Mesh operations (checked under SpecMesh) *)

\* the sum of the stated sizes of the fields before the n-th field
RECURSIVE StatedSizeBefore(_, _)
StatedSizeBefore(format, n) ==
  IF n = 1 THEN 0
  ELSE StatedSizeBefore(format, n - 1) + StatedFieldSize(format[n - 1])

\* the byte offset the n-th glVertexAttribPointer call of the last Bind
\* registered, relative to the buffer base the caller passed
RegisteredOffset(n) == glLog[Nth(Positions("AttribPointer"), n)][7] - lastOp.buffer

\* C13: during one Bind, the n-th field of the format is registered (n-th
\* glVertexAttribPointer call, on the slot of its kind) at the byte offset that
\* is the sum of the sizes (12, 12, 8, 4) of the fields before it, the first at
\* 0, so the byte ranges of different fields of the format do not overlap,
\* also when a kind occurs more than once.
C13_OffsetsAreCumulativeSizes ==
  lastOp.op \in {"Render", "RenderArray"} =>
    LET format == lastOp.format
        n == FieldCount(format, 1)
    IN  /\ Cardinality(Positions("AttribPointer")) = n
        /\ \A i \in 1 .. n :
             /\ RegisteredOffset(i) = StatedSizeBefore(format, i)
             /\ glLog[Nth(Positions("AttribPointer"), i)][2] = SetSlot(format[i])
        /\ n >= 1 => RegisteredOffset(1) = 0
        /\ \A i \in 1 .. n, j \in 1 .. n :
             i < j => RegisteredOffset(i) + StatedFieldSize(format[i])
                        <= RegisteredOffset(j)

\* a Bind of colour, normal, colour from caller memory: offsets 0, 4 and 16
C13_Witness ==
  /\ lastOp.op = "RenderArray"
  /\ lastOp.format = <<"kColor4ub", "kNormal3f", "kColor4ub", "kEND">>
  /\ lastOp.buffer # 0
  /\ RegisteredOffset(1) = 0
  /\ RegisteredOffset(2) = 4
  /\ RegisteredOffset(3) = 16

\* the program the uniform calls of the last operation are meant for
UniformsOwner ==
  IF lastOp.op = "Set" THEN shaders[lastOp.shader].program_ ELSE lastOp.program

\* C16: every uniform upload issued for a ShaderProgram (the texture_unit_0
\* write of Initialize, the matrix and colour writes of Set) is issued while
\* that same program is the current program.
C16_UniformsIssuedOnOwnProgram ==
  lastOp.op \in {"Set", "CompileAndLinkShader"} =>
    \A i \in DOMAIN glLog :
      glLog[i][1] \in UniformCalls => glLog[i][4] = UniformsOwner

\* a second program was compiled and linked while the first was current: its
\* texture_unit_0 write went to the first program, glUseProgram came after
C16_InitializeWroteToOtherProgram ==
  /\ lastOp.op = "CompileAndLinkShader"
  /\ lastOp.ret # 0
  /\ \E i \in Positions("Uniform1i") :
       /\ glLog[i][4] # lastOp.program
       /\ glLog[i][4] # 0
       /\ progDeleted[glLog[i][4]] = 0
       /\ \E u \in Positions("UseProgram") : u > i /\ glLog[u][2] = lastOp.program
       /\ ~ \E u \in Positions("UseProgram") : u < i

\* the renderer holds no window and no context, and all that SDL created
\* has been destroyed
AllReleased == window_ = 0 /\ context_ = 0 /\ sdlDestroyed = sdlCreated

\* C17: after one Initialize (successful, or failed at any step) and any
\* number of ShutDown calls, every window and context Initialize created is
\* destroyed exactly once, the context before the window; after the first
\* ShutDown the renderer holds neither, and a further ShutDown destroys nothing.
C17_ShutDownReleasesOnce ==
  [][ /\ sdlDestroyed'.window <= sdlCreated'.window /\ sdlCreated'.window <= 1
      /\ sdlDestroyed'.context <= sdlCreated'.context /\ sdlCreated'.context <= 1
      /\ window_' # 0 => sdlCreated'.window = 1 /\ sdlDestroyed'.window = 0
      /\ context_' # 0 => sdlCreated'.context = 1 /\ sdlDestroyed'.context = 0
      /\ lastOp'.op = "Initialize" =>
           /\ window_' = sdlCreated'.window
           /\ context_' = sdlCreated'.context
      /\ lastOp'.op = "ShutDown" =>
           /\ AllReleased'
           /\ Cardinality(Positions("SDL_DestroyWindow")')
                = sdlDestroyed'.window - sdlDestroyed.window
           /\ Cardinality(Positions("SDL_GL_DeleteContext")')
                = sdlDestroyed'.context - sdlDestroyed.context
           /\ \A c \in Positions("SDL_GL_DeleteContext")', w \in Positions("SDL_DestroyWindow")' :
                c < w
           /\ \A c \in Positions("SDL_GL_DeleteContext")' : glLog'[c][2] = context_
           /\ \A w \in Positions("SDL_DestroyWindow")' : glLog'[w][2] = window_
      /\ (initialized /\ AllReleased) =>
           /\ AllReleased'
           /\ Positions("SDL_DestroyWindow")' = {}
           /\ Positions("SDL_GL_DeleteContext")' = {}
    ]_vars

\* a second ShutDown after a successful Initialize: nothing is destroyed again
C17_Witness ==
  /\ lastOp.op = "ShutDown"
  /\ initialized
  /\ glLog = <<>>
  /\ sdlCreated = [window |-> 1, context |-> 1]
  /\ sdlDestroyed = [window |-> 1, context |-> 1]

\* the vertex buffer, stride and format of a mesh
VertexSide(mesh) == <<mesh.vbo_, mesh.vertex_size_, mesh.format_>>

\* C15: AddIndices appends exactly one range at the end of the mesh's sequence
\* and leaves every earlier range, the vertex buffer handle, the stride and the
\* format unchanged (and every other mesh); Render and RenderArray change no
\* mesh; Render binds the mesh's one vertex buffer and draws every range with
\* its stride.
C15_AddIndicesAppendsRenderKeeps ==
  [][ /\ lastOp'.op = "AddIndices" =>
           LET m == lastOp'.mesh
               old == meshes[m].indices_
               new == meshes'[m].indices_
           IN  /\ Len(new) = Len(old) + 1
               /\ \A i \in 1 .. Len(old) : new[i] = old[i]
               /\ new[Len(new)].count = lastOp'.count
               /\ new[Len(new)].mat = lastOp'.mat
               /\ new[Len(new)].ibo = glLog'[1][2]
               /\ VertexSide(meshes'[m]) = VertexSide(meshes[m])
               /\ meshes'[m].phase = meshes[m].phase
               /\ \A o \in MeshIds \ {m} : meshes'[o] = meshes[o]
      /\ lastOp'.op \in {"Render", "RenderArray"} => meshes' = meshes
      /\ lastOp'.op = "Render" =>
           LET mesh == meshes[lastOp'.mesh]
           IN  /\ \A k \in Positions("BindArrayBuffer")' :
                    glLog'[k][2] \in {mesh.vbo_, 0}
               /\ \E k \in Positions("BindArrayBuffer")' : glLog'[k][2] = mesh.vbo_
               /\ \A k \in Positions("AttribPointer")' : glLog'[k][6] = mesh.vertex_size_
               /\ lastOp'.format = mesh.format_
               /\ Cardinality(Positions("DrawElements")') = Len(mesh.indices_)
    ]_vars

\* a second range has been added to a mesh that already had a different one
C15_Witness ==
  /\ lastOp.op = "AddIndices"
  /\ Len(meshes[lastOp.mesh].indices_) = 2
  /\ meshes[lastOp.mesh].indices_[1].count # meshes[lastOp.mesh].indices_[2].count
  /\ meshes[lastOp.mesh].indices_[2].count = lastOp.count

----------------------------------------------------------------------------
(* The int arithmetic of CreateTextureFromTGAMemory on headers of any size *)

\* widths and heights a header's unsigned shorts can hold, around the sizes
\* where width * height * 4 leaves the range of int
HeaderDims == {0, 1, 2, 255, 256, 23170, 23171, 32767, 32768, 46340, 46341, 65535}

INT_MAX == 2147483647

\* a * b <= limit, for naturals, without forming the product
ProductWithin(a, b, limit) == a = 0 \/ b <= limit \div a

\* an int expression that overflows is undefined: the build either wraps
\* (two's complement) or traps
Overflowed(wrapped) == {[trap |-> FALSE, v |-> wrapped], [trap |-> TRUE, v |-> 0]}

\* int size = header->width * header->height (both operands promoted to int)
SizeOutcomes(header) ==
  IF ProductWithin(header.width, header.height, INT_MAX)
  THEN {[trap |-> FALSE, v |-> header.width * header.height]}
  ELSE Overflowed(PixelCount(header))

\* size * 4, the operand of new unsigned char[...]
BytesOutcomes(size) ==
  IF size >= 0 /\ ProductWithin(size, 4, INT_MAX)
  THEN {[trap |-> FALSE, v |-> size * 4]}
  ELSE Overflowed(Mul4(size))

\* a 32-bit int plus an unsigned short as a 32-bit int (wrapping)
Add32(v, x) ==
  IF v > INT_MAX - x THEN (((v - INT_MAX) + x) - 1) - INT_MAX - 1 ELSE v + x

\* (y * header->width + x) * 4, the offset of p from rgba
IndexOutcomes(header, y, x) ==
  IF ProductWithin(header.width, y, ((INT_MAX \div 4) - x))
  THEN {[trap |-> FALSE, v |-> (y * header.width + x) * 4]}
  ELSE Overflowed(Mul4(Add32(MulShorts(y, header.width), x)))

\* lines 247-248: size is computed and the output buffer is allocated; a
\* negative operand of new[] converts to a size no allocation can satisfy
AllocateRGBA ==
  /\ lastOp.op = "TGAHeader"
  /\ \E s \in SizeOutcomes(lastOp.header) :
       \E b \in (IF s.trap THEN {s} ELSE BytesOutcomes(s.v)) :
         lastOp' = [op |-> "AllocateRGBA", header |-> lastOp.header,
                    result |-> IF b.trap THEN "trap"
                               ELSE IF b.v < 0 THEN "bad_alloc"
                               ELSE "allocated",
                    bytes |-> IF b.trap \/ b.v < 0 THEN 0 ELSE b.v]
  /\ UNCHANGED <<meshVars, rendererVars, last_error_, shaderVars, textureVars,
                 glLog>>

\* lines 260-266: the loop body for the pixel of row y and column x writes
\* p[0] .. p[3]
WritePixel(y, x) ==
  /\ lastOp.op \in {"AllocateRGBA", "WritePixel"}
  /\ lastOp.result = "allocated"
  /\ y \in 0 .. lastOp.header.height - 1
  /\ x \in 0 .. lastOp.header.width - 1
  /\ \E i \in IndexOutcomes(lastOp.header, y, x) :
       lastOp' = [op |-> "WritePixel", header |-> lastOp.header,
                  result |-> lastOp.result, bytes |-> lastOp.bytes,
                  y |-> y, x |-> x, index |-> i]
  /\ UNCHANGED <<meshVars, rendererVars, last_error_, shaderVars, textureVars,
                 glLog>>

\* an accepted header of any width and height has been read on a
\* little-endian host; nothing else has happened
InitTGASize ==
  /\ platform = "desktop"
  /\ littleEndian = TRUE
  /\ textures = <<>>
  /\ nextTexture = 1
  /\ window_ = ConstructedRenderer.window_
  /\ context_ = ConstructedRenderer.context_
  /\ initialized = FALSE
  /\ sdlDestroyed = [window |-> 0, context |-> 0]
  /\ sdlCreated = [window |-> 0, context |-> 0]
  /\ last_error_ = <<>>
  /\ shaders = <<>>
  /\ currentProgram = 0
  /\ nextProgram = 1
  /\ nextShader = 1
  /\ progDeleted = [h \in ProgramIds |-> 0]
  /\ shaderDeleted = [h \in ShaderIds |-> 0]
  /\ attached = [h \in ProgramIds |-> {}]
  /\ meshes = [m \in MeshIds |-> NoMesh]
  /\ slotEnabled = [s \in Slots |-> FALSE]
  /\ bufDeleted = [b \in BufIds |-> 0]
  /\ nextBuf = 1
  /\ glLog = <<>>
  /\ \E w \in HeaderDims, h \in HeaderDims :
       lastOp = [op |-> "TGAHeader", header |-> [width |-> w, height |-> h]]

\* the first and the last row and column are the extremes of the loops
NextTGASize ==
  \/ AllocateRGBA
  \/ \E y \in {0, lastOp.header.height - 1}, x \in {0, lastOp.header.width - 1} :
       WritePixel(y, x)

SpecTGASize == InitTGASize /\ [][NextTGASize]_vars

----------------------------------------------------------------------------
(* Properties of the int arithmetic (checked under SpecTGASize) *)

\* C14: for every header width and height in 0..65535 the allocated output
\* buffer has (width*height)*4 bytes, computed as int, equal to the
\* mathematical width*height*4, and every index (y*width + x)*4 + 3 the
\* decode loop writes is non-negative and below that size.
C14_SizeAndIndicesExact ==
  /\ lastOp.op \in {"AllocateRGBA", "WritePixel"} =>
       /\ lastOp.result = "allocated"
       /\ ProductWithin(lastOp.header.width, lastOp.header.height, INT_MAX \div 4)
       /\ lastOp.bytes = lastOp.header.width * lastOp.header.height * 4
  /\ lastOp.op = "WritePixel" =>
       /\ ~lastOp.index.trap
       /\ lastOp.index.v >= 0
       /\ lastOp.index.v + 3 < lastOp.bytes

\* the same statement for the headers whose width*height*4 fits an int
C14_ExactWhenProductFits ==
  ProductWithin(lastOp.header.width, lastOp.header.height, INT_MAX \div 4)
    => C14_SizeAndIndicesExact

\* a 32768 x 32768 header: size * 4 wraps to 0 and the last pixel's offset to -4
C14_WrappedToEmptyBuffer ==
  /\ lastOp.op = "WritePixel"
  /\ lastOp.header = [width |-> 32768, height |-> 32768]
  /\ lastOp.bytes = 0
  /\ lastOp.y = 32767 /\ lastOp.x = 32767
  /\ lastOp.index = [trap |-> FALSE, v |-> -4]

====
